---- MODULE Spec2Model ----
(***************************************************************************)
(* A model of rpc/src/transaction_authorization_builder.rs of snarkOS:     *)
(* the TransactionAuthorizationBuilder (add_input, add_output, network_id, *)
(* memo, build) and the construction routine TransactionAuthorization::new *)
(* that pads the inputs and outputs to the fixed arity of the DPC scheme,  *)
(* derives the joint serial numbers and calls the scheme's authorize.      *)
(*                                                                         *)
(* The DPC scheme (snarkvm) is outside the file.  Its operations are       *)
(* modelled as deterministic functions of their arguments that keep every  *)
(* argument visible in their result, and each of them may fail.            *)
(***************************************************************************)
EXTENDS Integers, Sequences, FiniteSets, TLC

(***************************************************************************)
(* Program constants.                                                      *)
(***************************************************************************)
\* the value of Testnet1Parameters::NUM_INPUT_RECORDS
Testnet1_NUM_INPUT_RECORDS == 2
\* the value of Testnet1Parameters::NUM_OUTPUT_RECORDS
Testnet1_NUM_OUTPUT_RECORDS == 2
\* Testnet1Parameters::NETWORK_ID
NETWORK_ID == 1

(***************************************************************************)
(* Bounds of the model: the sizes of the sets the callers' arguments are   *)
(* drawn from.  The lengths of the two lists need no bound: add_input and  *)
(* add_output bound them.                                                  *)
(***************************************************************************)
\* private keys are 1..NumKeys
NumKeys == 2
\* the amounts a caller passes to add_output (a u64) are 1..MaxAmount
MaxAmount == 1
\* where the arities of the scheme parameters are left open, they are
\* 1..MaxArity
MaxArity == 2

PrivateKeys == 1..NumKeys
Amounts == 1..MaxAmount
\* the values a caller passes to network_id (a u8)
NetworkIds == {0, NETWORK_ID}
\* the [u8; 64] blobs a caller passes to memo
Memos == {1, 2}
\* the states of the caller's random number generator when build is called
RngStates == {0, 100}

(***************************************************************************)
(* The scheme provider.                                                    *)
(***************************************************************************)
\* Address::from_private_key: deterministic and injective
AddressFromPrivateKey(private_key) == private_key + 10

Addresses == {AddressFromPrivateKey(k) : k \in PrivateKeys}

\* the addresses a caller passes to add_output
Recipients == {AddressFromPrivateKey(1), AddressFromPrivateKey(2)}

\* dpc.noop_program
NoopProgram == "noop"

\* Payload::default()
DefaultPayload == 0

\* Testnet1Parameters::serial_number_nonce_crh().hash(seed)
SerialNumberNonceCRH(seed) == ((seed * 7) + 3) % 251

\* rng.gen(): the value drawn in generator state r; the state then advances
\* by one
RngGen(r) == r

\* Record::new(program, owner, is_dummy, value, payload, nonce, rng)
RecordNew(program, owner, is_dummy, value, payload, nonce, r) ==
    [program |-> program, owner |-> owner, is_dummy |-> is_dummy,
     value |-> value, payload |-> payload, serial_number_nonce |-> nonce,
     commitment_randomness |-> RngGen(r)]

\* Record::new_full(program, owner, is_dummy, value, payload, position,
\*                  joint_serial_numbers, rng)
RecordNewFull(program, owner, is_dummy, value, payload, position, joint, r) ==
    [program |-> program, owner |-> owner, is_dummy |-> is_dummy,
     value |-> value, payload |-> payload, position |-> position,
     joint_serial_numbers |-> joint, commitment_randomness |-> RngGen(r)]

\* record.to_serial_number(private_key): a 16-bit value fixed by the key and
\* the record's serial number nonce
ToSerialNumber(record, private_key) ==
    ((private_key * 256) + record.serial_number_nonce) % 65536

\* to_bytes_le![sn]: the two bytes of the serial number, low byte first
ToBytesLE(sn) == << sn % 256, (sn \div 256) % 256 >>

\* dpc.authorize(private_keys, input_records, output_records, memo, rng)
Authorize(private_keys, input_records, output_records, memo_, r) ==
    [private_keys |-> private_keys, input_records |-> input_records,
     output_records |-> output_records, memo |-> memo_,
     randomness |-> RngGen(r)]

\* the records a caller holds: one per owner address, never dummy
UserRecord(owner) ==
    [program |-> NoopProgram, owner |-> owner, is_dummy |-> FALSE,
     value |-> owner * 10, payload |-> DefaultPayload,
     serial_number_nonce |-> owner, commitment_randomness |-> owner]

\* the records a caller passes to add_input with private_key: the record
\* the key owns, or the record the next key owns
RecordsWith(private_key) ==
    {UserRecord(AddressFromPrivateKey(private_key)),
     UserRecord(AddressFromPrivateKey((private_key % NumKeys) + 1))}

(***************************************************************************)
(* The state: the builder value the caller holds, and what the last call   *)
(* returned.                                                               *)
(***************************************************************************)
VARIABLES
    NUM_INPUT_RECORDS,   \* Parameters::NUM_INPUT_RECORDS, fixed at build time
    NUM_OUTPUT_RECORDS,  \* Parameters::NUM_OUTPUT_RECORDS, fixed at build time
    alive,       \* TRUE while the caller holds a builder value
    inputs,      \* builder.inputs: sequence of TransactionInput
    outputs,     \* builder.outputs: sequence of TransactionOutput
    network_id,  \* builder.network_id
    memo,        \* builder.memo: << >> is None, << m >> is Some(m)
    ret,         \* what the last call returned
    trace        \* what TransactionAuthorization::new did in the last build

\* the arities of the scheme parameters the program is built with
arity == << NUM_INPUT_RECORDS, NUM_OUTPUT_RECORDS >>

vars == << arity, alive, inputs, outputs, network_id, memo, ret, trace >>

\* struct TransactionInput
TransactionInput(private_key, record) ==
    [private_key |-> private_key, record |-> record]

\* struct TransactionOutput
TransactionOutput(recipient, amount) ==
    [recipient |-> recipient, amount |-> amount]

\* Ok(..)
Ok == [kind |-> "Ok"]
\* Err(DPCError::InvalidNumberOfInputs(a, b))
InvalidNumberOfInputs(a, b) ==
    [kind |-> "Err", tag |-> "InvalidNumberOfInputs", a |-> a, b |-> b]
\* Err(DPCError::InvalidNumberOfOutputs(a, b))
InvalidNumberOfOutputs(a, b) ==
    [kind |-> "Err", tag |-> "InvalidNumberOfOutputs", a |-> a, b |-> b]
\* Err(DPCError::Message(msg))
Message(msg) == [kind |-> "Err", tag |-> "Message", msg |-> msg]
\* an error of the scheme provider, propagated by `?`
SchemeError(call) == [kind |-> "Err", tag |-> "Scheme", call |-> call]
\* a panic: a failed assert!, assert_eq! or unwrap
Panic(what) == [kind |-> "Panic", what |-> what]

\* no construction routine has run
NoTrace ==
    [entered |-> FALSE, failed |-> FALSE, calls |-> << >>, draws |-> 0,
     private_keys |-> << >>, input_records |-> << >>,
     new_record_owners |-> << >>, new_is_dummy_flags |-> << >>,
     new_values |-> << >>, joint_serial_numbers |-> << >>,
     output_records |-> << >>, authorized |-> << >>]


(***************************************************************************)
(* TransactionAuthorization::new, the construction routine.                *)
(***************************************************************************)
Min(S) == CHOOSE x \in S : \A y \in S : x <= y

\* one call of a scheme provider operation: its name, the loop index it was
\* made at (counted from 1, 0 outside a loop) and the number of values it
\* draws from rng
Call(fn, slot, draws) == [fn |-> fn, slot |-> slot, draws |-> draws]

RECURSIVE SumDraws(_)
SumDraws(calls) ==
    IF calls = << >> THEN 0
    ELSE calls[1].draws + SumDraws(Tail(calls))

\* the input padding loop with the dummy record not flagged dummy
RECURSIVE PadInputs_not_flagged(_, _, _, _)
PadInputs_not_flagged(private_keys, input_records, calls, r) ==
    IF Len(input_records) < NUM_INPUT_RECORDS
    THEN LET private_key == private_keys[1]
             address == AddressFromPrivateKey(private_key)
             slot == Len(input_records) + 1
             nonce == SerialNumberNonceCRH(RngGen(r))
             record == RecordNew(NoopProgram, address, FALSE, 0,
                                 DefaultPayload, nonce, r + 1)
         IN  PadInputs_not_flagged(Append(private_keys, private_key),
                       Append(input_records, record),
                       calls \o << Call("from_private_key", slot, 0),
                                   Call("hash", slot, 1),
                                   Call("Record::new", slot, 1) >>,
                       r + 2)
    ELSE [private_keys |-> private_keys, input_records |-> input_records,
          calls |-> calls, rng |-> r]

\* the input padding loop pairing the dummy record with another key than
\* the one its owner address was derived from
RECURSIVE PadInputs_other_key(_, _, _, _)
PadInputs_other_key(private_keys, input_records, calls, r) ==
    IF Len(input_records) < NUM_INPUT_RECORDS
    THEN LET private_key == private_keys[1]
             address == AddressFromPrivateKey(private_key)
             slot == Len(input_records) + 1
             nonce == SerialNumberNonceCRH(RngGen(r))
             record == RecordNew(NoopProgram, address, TRUE, 0,
                                 DefaultPayload, nonce, r + 1)
         IN  PadInputs_other_key(
                       Append(private_keys, (private_key % NumKeys) + 1),
                       Append(input_records, record),
                       calls \o << Call("from_private_key", slot, 0),
                                   Call("hash", slot, 1),
                                   Call("Record::new", slot, 1) >>,
                       r + 2)
    ELSE [private_keys |-> private_keys, input_records |-> input_records,
          calls |-> calls, rng |-> r]

\* the `while input_records.len() < NUM_INPUT_RECORDS` loop: every turn
\* appends one dummy record owned by the address of private_keys[0], and a
\* copy of private_keys[0]
RECURSIVE PadInputs(_, _, _, _)
PadInputs(private_keys, input_records, calls, r) ==
    IF Len(input_records) < NUM_INPUT_RECORDS
    THEN LET private_key == private_keys[1]
             address == AddressFromPrivateKey(private_key)
             slot == Len(input_records) + 1
             nonce == SerialNumberNonceCRH(RngGen(r))
             record == RecordNew(NoopProgram, address, TRUE, 0,
                                 DefaultPayload, nonce, r + 1)
         IN  PadInputs(Append(private_keys, private_key),
                       Append(input_records, record),
                       calls \o << Call("from_private_key", slot, 0),
                                   Call("hash", slot, 1),
                                   Call("Record::new", slot, 1) >>,
                       r + 2)
    ELSE [private_keys |-> private_keys, input_records |-> input_records,
          calls |-> calls, rng |-> r]

\* the ownership loop with its assert_eq! left out: no pair is reported
FirstMismatch_none(private_keys, input_records) == 0

\* the `for (private_key, record) in private_keys.iter().zip(&input_records)`
\* loop: the index of the first pair whose assert_eq! fails, 0 when none does
FirstMismatch(private_keys, input_records) ==
    LET n == IF Len(private_keys) < Len(input_records)
             THEN Len(private_keys) ELSE Len(input_records)
        bad == {i \in 1..n :
                  AddressFromPrivateKey(private_keys[i]) # input_records[i].owner}
    IN  IF bad = {} THEN 0 ELSE Min(bad)

\* the from_private_key calls of that loop: one per pair, up to and
\* including the first mismatching pair
OwnershipCalls(n, mismatch) ==
    [i \in 1..(IF mismatch = 0 THEN n ELSE mismatch) |->
        Call("from_private_key", i, 0)]

\* the `for (recipient, amount) in recipients.iter().zip(recipient_amounts)`
\* loop
DecodeRecipients(recipients, recipient_amounts) ==
    LET n == IF Len(recipients) < Len(recipient_amounts)
             THEN Len(recipients) ELSE Len(recipient_amounts)
    IN  [new_record_owners |-> [j \in 1..n |-> recipients[j]],
         new_is_dummy_flags |-> [j \in 1..n |-> FALSE],
         new_values |-> [j \in 1..n |-> recipient_amounts[j]]]

\* the output padding loop left out
PadOutputs_none(new) == new

\* the output padding loop giving the dummy output the first output's amount
RECURSIVE PadOutputs_first_amount(_)
PadOutputs_first_amount(new) ==
    IF Len(new.new_record_owners) < NUM_OUTPUT_RECORDS
    THEN PadOutputs_first_amount(
           [new_record_owners |->
                Append(new.new_record_owners, new.new_record_owners[1]),
            new_is_dummy_flags |-> Append(new.new_is_dummy_flags, TRUE),
            new_values |-> Append(new.new_values, new.new_values[1])])
    ELSE new

\* the `while new_record_owners.len() < NUM_OUTPUT_RECORDS` loop
RECURSIVE PadOutputs(_)
PadOutputs(new) ==
    IF Len(new.new_record_owners) < NUM_OUTPUT_RECORDS
    THEN PadOutputs(
           [new_record_owners |->
                Append(new.new_record_owners, new.new_record_owners[1]),
            new_is_dummy_flags |-> Append(new.new_is_dummy_flags, TRUE),
            new_values |-> Append(new.new_values, 0)])
    ELSE new

\* the serial number loop using private_keys[0] for every record
RECURSIVE JointSerialNumbers_first_key(_, _, _)
JointSerialNumbers_first_key(input_records, private_keys, i) ==
    IF i > NUM_INPUT_RECORDS THEN << >>
    ELSE ToBytesLE(ToSerialNumber(input_records[i], private_keys[1]))
           \o JointSerialNumbers_first_key(input_records, private_keys, i + 1)

\* the `for i in 0..NUM_INPUT_RECORDS` loop: the serial number of record i
\* under key i, its bytes appended to joint_serial_numbers
RECURSIVE JointSerialNumbers(_, _, _)
JointSerialNumbers(input_records, private_keys, i) ==
    IF i > NUM_INPUT_RECORDS THEN << >>
    ELSE ToBytesLE(ToSerialNumber(input_records[i], private_keys[i]))
           \o JointSerialNumbers(input_records, private_keys, i + 1)

SerialCalls ==
    [c \in 1..(2 * NUM_INPUT_RECORDS) |->
        IF c % 2 = 1 THEN Call("to_serial_number", (c + 1) \div 2, 0)
        ELSE Call("to_bytes_le", c \div 2, 0)]

\* the position handed to Record::new_full for output j (j counted from 0):
\* (NUM_OUTPUT_RECORDS + j) as u8
OutputPosition(j) == (NUM_OUTPUT_RECORDS + j) % 256

\* the `for j in 0..NUM_OUTPUT_RECORDS` loop; the model's index is j + 1
OutputRecords(new, joint_serial_numbers, r) ==
    [j \in 1..NUM_OUTPUT_RECORDS |->
        RecordNewFull(NoopProgram, new.new_record_owners[j],
                      new.new_is_dummy_flags[j], new.new_values[j],
                      DefaultPayload, OutputPosition(j - 1),
                      joint_serial_numbers, r + (j - 1))]

OutputCalls == [j \in 1..NUM_OUTPUT_RECORDS |-> Call("Record::new_full", j, 1)]

\* TransactionAuthorization::new when no scheme provider operation fails:
\* the calls it makes in order, the assertion that stops it (<< >> when none
\* does), the lists it builds, and for each list the number of calls made
\* when the list is complete
NewRun(spenders, records_to_spend, recipients, recipient_amounts, memo_, rng) ==
    LET load == << Call("load", 0, 0) >>
        stopped(calls, what) ==
            [calls |-> calls, panic |-> << what >>,
             at_padded |-> -1, at_decoded |-> -1, at_joint |-> -1,
             at_outputs |-> -1, at_authorize |-> -1,
             private_keys |-> << >>, input_records |-> << >>,
             new |-> [new_record_owners |-> << >>,
                      new_is_dummy_flags |-> << >>, new_values |-> << >>],
             joint_serial_numbers |-> << >>, output_records |-> << >>,
             authorization |-> << >>]
    IN
    IF spenders = << >> THEN stopped(load, "assert !spenders.is_empty()")
    ELSE IF Len(spenders) # Len(records_to_spend)
    THEN stopped(load, "assert spenders.len() == records_to_spend.len()")
    ELSE IF recipients = << >>
    THEN stopped(load, "assert !recipients.is_empty()")
    ELSE IF Len(recipients) # Len(recipient_amounts)
    THEN stopped(load, "assert recipients.len() == recipient_amounts.len()")
    ELSE
    LET padded == PadInputs(spenders, records_to_spend, load, rng)
        private_keys == padded.private_keys
        input_records == padded.input_records
        mismatch == FirstMismatch(private_keys, input_records)
        checked == padded.calls
                     \o OwnershipCalls(Len(input_records), mismatch)
        new == PadOutputs(DecodeRecipients(recipients, recipient_amounts))
        joint_serial_numbers ==
            JointSerialNumbers(input_records, private_keys, 1)
        output_records == OutputRecords(new, joint_serial_numbers, padded.rng)
        rng_authorize == padded.rng + NUM_OUTPUT_RECORDS
        all == checked \o SerialCalls \o OutputCalls
                 \o << Call("authorize", 0, 1) >>
    IN
    IF Len(input_records) # NUM_INPUT_RECORDS
    THEN [stopped(padded.calls, "assert input_records.len() == NUM_INPUT_RECORDS")
            EXCEPT !.at_padded = Len(padded.calls),
                   !.private_keys = private_keys,
                   !.input_records = input_records]
    ELSE IF mismatch # 0
    THEN [stopped(checked, "assert address == record.owner()")
            EXCEPT !.at_padded = Len(padded.calls),
                   !.private_keys = private_keys,
                   !.input_records = input_records]
    ELSE IF Len(new.new_record_owners) # NUM_OUTPUT_RECORDS
    THEN [stopped(checked, "assert new_record_owners.len() == NUM_OUTPUT_RECORDS")
            EXCEPT !.at_padded = Len(padded.calls),
                   !.private_keys = private_keys,
                   !.input_records = input_records,
                   !.at_decoded = Len(checked),
                   !.new = new]
    ELSE
    [calls |-> all, panic |-> << >>,
     at_padded |-> Len(padded.calls), at_decoded |-> Len(checked),
     at_joint |-> Len(checked) + Len(SerialCalls),
     at_outputs |-> Len(all) - 1, at_authorize |-> Len(all),
     private_keys |-> private_keys, input_records |-> input_records,
     new |-> new, joint_serial_numbers |-> joint_serial_numbers,
     output_records |-> output_records,
     authorization |->
        << Authorize(private_keys, input_records, output_records, memo_,
                     rng_authorize) >>]

\* TransactionAuthorization::new with every provider result unwrapped: a
\* failed call panics
NewReturn_unwrap(run, fail) ==
    IF fail \in 1..Len(run.calls)
    THEN Panic("called Result::unwrap() on an Err value")
    ELSE IF run.panic # << >> THEN Panic(run.panic[1])
    ELSE [kind |-> "Ok", authorization |-> run.authorization[1]]

\* what TransactionAuthorization::new returns: the error of the failed call
\* (`?`), a panic when load failed (unwrap) or an assertion stopped the run,
\* else the authorization
NewReturn(run, fail) ==
    IF fail \in 1..Len(run.calls)
    THEN IF run.calls[fail].fn = "load"
         THEN Panic("DPCScheme::load(false).unwrap()")
         ELSE SchemeError(run.calls[fail])
    ELSE IF run.panic # << >> THEN Panic(run.panic[1])
    ELSE [kind |-> "Ok", authorization |-> run.authorization[1]]

\* TransactionAuthorization::new.  fail = 0: no scheme provider operation
\* fails; fail = k > 0: the k-th call made fails, if that many are made.  A
\* failed load panics (unwrap); any other failed call returns its error (`?`).
\* Returns [ret, trace].
TransactionAuthorization_new(spenders, records_to_spend, recipients, recipient_amounts, network_id_, memo_, rng, fail) ==
    LET run == NewRun(spenders, records_to_spend, recipients,
                      recipient_amounts, memo_, rng)
        failed == fail \in 1..Len(run.calls)
        calls == IF failed THEN SubSeq(run.calls, 1, fail) ELSE run.calls
        \* the list completed after `at` calls exists
        have(at) == at >= 0 /\ (~failed \/ fail > at)
        \* authorize is entered once every call before it has succeeded
        entered_authorize == run.at_authorize >= 0 /\ have(run.at_outputs)
        none == [new_record_owners |-> << >>, new_is_dummy_flags |-> << >>,
                 new_values |-> << >>]
        new == IF have(run.at_decoded) THEN run.new ELSE none
    IN
    [ret |-> NewReturn(run, fail),
     trace |->
       [entered |-> TRUE, failed |-> failed, calls |-> calls,
        draws |-> SumDraws(calls),
        private_keys |->
            IF have(run.at_padded) THEN run.private_keys ELSE << >>,
        input_records |->
            IF have(run.at_padded) THEN run.input_records ELSE << >>,
        new_record_owners |-> new.new_record_owners,
        new_is_dummy_flags |-> new.new_is_dummy_flags,
        new_values |-> new.new_values,
        joint_serial_numbers |->
            IF have(run.at_joint) THEN run.joint_serial_numbers ELSE << >>,
        output_records |->
            IF have(run.at_outputs) THEN run.output_records ELSE << >>,
        authorized |->
            IF entered_authorize
            THEN << [private_keys |-> run.private_keys,
                     input_records |-> run.input_records,
                     output_records |-> run.output_records,
                     memo |-> memo_] >>
            ELSE << >>]]

(***************************************************************************)
(* The byte and text forms of an authorization.  The encodings belong to   *)
(* the scheme's TransactionAuthorization type; the wrapper delegates to    *)
(* them.                                                                   *)
(***************************************************************************)
RECURSIVE Concat(_)
Concat(seqs) == IF seqs = << >> THEN << >> ELSE seqs[1] \o Concat(Tail(seqs))

\* the bytes of one input record
InputRecordBytes(record) ==
    << record.owner, IF record.is_dummy THEN 1 ELSE 0, record.value,
       record.serial_number_nonce, record.commitment_randomness >>

\* the bytes of one output record
OutputRecordBytes(record) ==
    << record.owner, IF record.is_dummy THEN 1 ELSE 0, record.value,
       record.position, record.commitment_randomness >>

\* the scheme authorization's write_le: the input records, the output
\* records, the joint serial numbers the outputs commit to, the randomness,
\* and the memo behind a presence byte.  The private keys are not written.
Native_write_le(authorization) ==
    Concat([i \in 1..NUM_INPUT_RECORDS |->
               InputRecordBytes(authorization.input_records[i])])
      \o Concat([j \in 1..NUM_OUTPUT_RECORDS |->
                    OutputRecordBytes(authorization.output_records[j])])
      \o authorization.output_records[1].joint_serial_numbers
      \o << authorization.randomness >>
      \o << Len(authorization.memo) >> \o authorization.memo

\* the scheme authorization's read_le: the value whose bytes these are, or
\* an error when the bytes are not those of an authorization
Native_read_le(bytes) ==
    LET n == NUM_INPUT_RECORDS
        m == NUM_OUTPUT_RECORDS
        fixed == (5 * n) + (5 * m) + (2 * n) + 2
        at_out == 5 * n
        at_joint == at_out + (5 * m)
        at_rand == at_joint + (2 * n) + 1
        joint == SubSeq(bytes, at_joint + 1, at_joint + (2 * n))
        flag(b) == b \in {0, 1}
    IN  IF \/ Len(bytes) < fixed
           \/ ~flag(bytes[fixed])
           \/ Len(bytes) # fixed + bytes[fixed]
           \/ \E i \in 1..n : ~flag(bytes[(5 * (i - 1)) + 2])
           \/ \E j \in 1..m : ~flag(bytes[at_out + (5 * (j - 1)) + 2])
        THEN Message("invalid transaction authorization bytes")
        ELSE [kind |-> "Ok",
              authorization |->
                [private_keys |-> << >>,
                 input_records |->
                   [i \in 1..n |->
                      LET o == 5 * (i - 1)
                      IN  [program |-> NoopProgram, owner |-> bytes[o + 1],
                           is_dummy |-> bytes[o + 2] = 1,
                           value |-> bytes[o + 3], payload |-> DefaultPayload,
                           serial_number_nonce |-> bytes[o + 4],
                           commitment_randomness |-> bytes[o + 5]]],
                 output_records |->
                   [j \in 1..m |->
                      LET o == at_out + (5 * (j - 1))
                      IN  [program |-> NoopProgram, owner |-> bytes[o + 1],
                           is_dummy |-> bytes[o + 2] = 1,
                           value |-> bytes[o + 3], payload |-> DefaultPayload,
                           position |-> bytes[o + 4],
                           joint_serial_numbers |-> joint,
                           commitment_randomness |-> bytes[o + 5]]],
                 memo |-> SubSeq(bytes, fixed + 1, Len(bytes)),
                 randomness |-> bytes[at_rand]]]

\* the digits of the text form
HexDigits ==
    << "0", "1", "2", "3", "4", "5", "6", "7",
       "8", "9", "a", "b", "c", "d", "e", "f" >>

\* hex::encode: two digits per byte, high digit first
HexEncode(bytes) ==
    [c \in 1..(2 * Len(bytes)) |->
        IF c % 2 = 1 THEN HexDigits[(bytes[(c + 1) \div 2] \div 16) + 1]
        ELSE HexDigits[(bytes[c \div 2] % 16) + 1]]

HexValue(digit) == CHOOSE d \in 0..15 : HexDigits[d + 1] = digit

\* hex::decode: << >> wrapped as Ok, or an error on an odd length or a
\* character that is no hex digit
HexDecode(text) ==
    IF \/ Len(text) % 2 = 1
       \/ \E c \in 1..Len(text) : \A d \in 1..16 : HexDigits[d] # text[c]
    THEN Message("invalid hex text")
    ELSE [kind |-> "Ok",
          bytes |-> [b \in 1..(Len(text) \div 2) |->
                        (HexValue(text[(2 * b) - 1]) * 16)
                          + HexValue(text[2 * b])]]

\* the scheme authorization's to_string: the hex text of its bytes
Native_to_string(authorization) == HexEncode(Native_write_le(authorization))

\* the scheme authorization's from_str
Native_from_str(text) ==
    LET decoded == HexDecode(text)
    IN  IF decoded.kind # "Ok" THEN decoded ELSE Native_read_le(decoded.bytes)

\* TransactionAuthorization::to_bytes: write_le into a fresh vector
to_bytes(self) == Native_write_le(self.authorization)

\* FromStr for TransactionAuthorization: the scheme's from_str, its error
\* returned by `?`, its value wrapped
from_str(transaction_authorization) ==
    LET parsed == Native_from_str(transaction_authorization)
    IN  IF parsed.kind # "Ok" THEN parsed
        ELSE [kind |-> "Ok", authorization |-> parsed.authorization]

\* Display written with the bytes' hex text behind a "0x" prefix
fmt_prefixed(self) == << "0", "x" >> \o Native_to_string(self.authorization)

\* Display for TransactionAuthorization: writes the scheme's to_string
fmt(self) == Native_to_string(self.authorization)

(***************************************************************************)
(* TransactionAuthorizationBuilder.                                        *)
(***************************************************************************)
\* add_input with the check written `>=`: the append that would exceed
\* NUM_INPUT_RECORDS is rejected
add_input_at_max(self_inputs, private_key, record) ==
    IF Len(self_inputs) >= NUM_INPUT_RECORDS
    THEN [ret |-> InvalidNumberOfInputs(Len(self_inputs) + 1, NUM_INPUT_RECORDS),
          inputs |-> << >>]
    ELSE [ret |-> Ok,
          inputs |-> Append(self_inputs, TransactionInput(private_key, record))]

\* add_input putting the new entry in front of the list
add_input_front(self_inputs, private_key, record) ==
    IF Len(self_inputs) > NUM_INPUT_RECORDS
    THEN [ret |-> InvalidNumberOfInputs(Len(self_inputs) + 1, NUM_INPUT_RECORDS),
          inputs |-> << >>]
    ELSE [ret |-> Ok,
          inputs |-> << TransactionInput(private_key, record) >> \o self_inputs]

\* add_input's check and push on a builder whose inputs are self_inputs:
\* what it returns, and the inputs of the builder it returns
add_input(self_inputs, private_key, record) ==
    IF Len(self_inputs) > NUM_INPUT_RECORDS
    THEN [ret |-> InvalidNumberOfInputs(Len(self_inputs) + 1, NUM_INPUT_RECORDS),
          inputs |-> << >>]
    ELSE [ret |-> Ok,
          inputs |-> Append(self_inputs, TransactionInput(private_key, record))]

\* add_output's check and push
add_output(self_outputs, recipient, amount) ==
    IF Len(self_outputs) > NUM_OUTPUT_RECORDS
    THEN [ret |-> InvalidNumberOfOutputs(Len(self_outputs) + 1, NUM_OUTPUT_RECORDS),
          outputs |-> << >>]
    ELSE [ret |-> Ok,
          outputs |-> Append(self_outputs, TransactionOutput(recipient, amount))]

\* build's checks with the output match rejecting only an empty list
build_validation_outputs_open(num_inputs, num_outputs) ==
    IF num_inputs \notin {1, 2}
    THEN InvalidNumberOfInputs(num_inputs, NUM_INPUT_RECORDS)
    ELSE IF num_outputs = 0
    THEN Message("Transaction authorization is missing outputs")
    ELSE Ok

\* build's checks with the input match rejecting only an empty list
build_validation_no_upper(num_inputs, num_outputs) ==
    IF num_inputs = 0
    THEN InvalidNumberOfInputs(num_inputs, NUM_INPUT_RECORDS)
    ELSE IF num_outputs = 0
    THEN Message("Transaction authorization is missing outputs")
    ELSE IF num_outputs \notin {1, 2}
    THEN InvalidNumberOfInputs(num_outputs, NUM_INPUT_RECORDS)
    ELSE Ok

\* build's checks with the `0 =>` arm of the output match left out
build_validation_no_zero_arm(num_inputs, num_outputs) ==
    IF num_inputs \notin {1, 2}
    THEN InvalidNumberOfInputs(num_inputs, NUM_INPUT_RECORDS)
    ELSE IF num_outputs \notin {1, 2}
    THEN InvalidNumberOfInputs(num_outputs, NUM_INPUT_RECORDS)
    ELSE Ok

\* the two `match` checks of build: Ok, or the error build returns
build_validation(num_inputs, num_outputs) ==
    IF num_inputs \notin {1, 2}
    THEN InvalidNumberOfInputs(num_inputs, NUM_INPUT_RECORDS)
    ELSE IF num_outputs = 0
    THEN Message("Transaction authorization is missing outputs")
    ELSE IF num_outputs \notin {1, 2}
    THEN InvalidNumberOfInputs(num_outputs, NUM_INPUT_RECORDS)
    ELSE Ok

\* build running the construction routine before it looks at its checks
build_checked_late(self_inputs, self_outputs, self_network_id, self_memo, rng, fail) ==
    LET checked == build_validation(Len(self_inputs), Len(self_outputs))
        spenders == [i \in 1..Len(self_inputs) |-> self_inputs[i].private_key]
        records_to_spend == [i \in 1..Len(self_inputs) |-> self_inputs[i].record]
        recipients == [j \in 1..Len(self_outputs) |-> self_outputs[j].recipient]
        recipient_amounts == [j \in 1..Len(self_outputs) |-> self_outputs[j].amount]
        made == TransactionAuthorization_new(spenders, records_to_spend,
                    recipients, recipient_amounts, self_network_id, self_memo,
                    rng, fail)
    IN  IF checked.kind # "Ok"
        THEN [ret |-> checked, trace |-> made.trace]
        ELSE made

\* build refusing a builder whose network id is not the scheme's
build_checks_network(self_inputs, self_outputs, self_network_id, self_memo, rng, fail) ==
    LET checked == build_validation(Len(self_inputs), Len(self_outputs))
        spenders == [i \in 1..Len(self_inputs) |-> self_inputs[i].private_key]
        records_to_spend == [i \in 1..Len(self_inputs) |-> self_inputs[i].record]
        recipients == [j \in 1..Len(self_outputs) |-> self_outputs[j].recipient]
        recipient_amounts == [j \in 1..Len(self_outputs) |-> self_outputs[j].amount]
    IN  IF checked.kind # "Ok"
        THEN [ret |-> checked, trace |-> NoTrace]
        ELSE IF self_network_id # NETWORK_ID
        THEN [ret |-> Message("Invalid network id"), trace |-> NoTrace]
        ELSE TransactionAuthorization_new(spenders, records_to_spend,
                 recipients, recipient_amounts, self_network_id, self_memo,
                 rng, fail)

\* build(&self, rng): [ret, trace]
build(self_inputs, self_outputs, self_network_id, self_memo, rng, fail) ==
    LET checked == build_validation(Len(self_inputs), Len(self_outputs))
        spenders == [i \in 1..Len(self_inputs) |-> self_inputs[i].private_key]
        records_to_spend == [i \in 1..Len(self_inputs) |-> self_inputs[i].record]
        recipients == [j \in 1..Len(self_outputs) |-> self_outputs[j].recipient]
        recipient_amounts == [j \in 1..Len(self_outputs) |-> self_outputs[j].amount]
    IN  IF checked.kind # "Ok"
        THEN [ret |-> checked, trace |-> NoTrace]
        ELSE TransactionAuthorization_new(spenders, records_to_spend,
                 recipients, recipient_amounts, self_network_id, self_memo,
                 rng, fail)

\* the number of scheme provider calls build makes on this builder when
\* none of them fails: each of them is a place where build can fail
ProviderCalls(self_inputs, self_outputs, rng) ==
    Len(build(self_inputs, self_outputs, NETWORK_ID, << >>, rng, 0).trace.calls)

\* the caller has no builder value left: the call consumed it
Dropped ==
    /\ alive' = FALSE
    /\ inputs' = << >>
    /\ outputs' = << >>
    /\ network_id' = NETWORK_ID
    /\ memo' = << >>

\* TransactionAuthorizationBuilder::new()
Builder_new ==
    /\ alive' = TRUE
    /\ inputs' = << >>
    /\ outputs' = << >>
    /\ network_id' = NETWORK_ID
    /\ memo' = << >>
    /\ ret' = Ok
    /\ trace' = NoTrace
    /\ UNCHANGED arity

\* builder.add_input(private_key, record)
Builder_add_input_of(private_key, record) ==
    /\ alive
    /\ LET r == add_input(inputs, private_key, record)
       IN  /\ ret' = r.ret
           /\ trace' = NoTrace
           /\ IF r.ret.kind = "Ok"
              THEN /\ inputs' = r.inputs
                   /\ UNCHANGED << alive, outputs, network_id, memo >>
              ELSE Dropped
    /\ UNCHANGED arity

\* add_input with any arguments
Builder_add_input ==
    \E private_key \in PrivateKeys :
        \E record \in RecordsWith(private_key) :
            Builder_add_input_of(private_key, record)

\* builder.add_output(recipient, amount)
Builder_add_output_of(recipient, amount) ==
    /\ alive
    /\ LET r == add_output(outputs, recipient, amount)
       IN  /\ ret' = r.ret
           /\ trace' = NoTrace
           /\ IF r.ret.kind = "Ok"
              THEN /\ outputs' = r.outputs
                   /\ UNCHANGED << alive, inputs, network_id, memo >>
              ELSE Dropped
    /\ UNCHANGED arity

\* add_output with any arguments
Builder_add_output ==
    \E recipient \in Recipients, amount \in Amounts :
        Builder_add_output_of(recipient, amount)

\* builder.network_id(id)
Builder_network_id_of(id) ==
    /\ alive
    /\ network_id' = id
    /\ ret' = Ok
    /\ trace' = NoTrace
    /\ UNCHANGED << arity, alive, inputs, outputs, memo >>

\* network_id with any argument
Builder_network_id == \E id \in NetworkIds : Builder_network_id_of(id)

\* memo keeping the memo the builder already has: the first memo wins
Builder_memo_of_first(m) ==
    /\ alive
    /\ memo' = IF memo = << >> THEN << m >> ELSE memo
    /\ ret' = Ok
    /\ trace' = NoTrace
    /\ UNCHANGED << arity, alive, inputs, outputs, network_id >>

\* builder.memo(m)
Builder_memo_of(m) ==
    /\ alive
    /\ memo' = << m >>
    /\ ret' = Ok
    /\ trace' = NoTrace
    /\ UNCHANGED << arity, alive, inputs, outputs, network_id >>

\* memo with any argument
Builder_memo == \E m \in Memos : Builder_memo_of(m)

\* build taking self by value: the call consumes the builder
Builder_build_consuming ==
    /\ alive
    /\ Dropped
    /\ UNCHANGED arity
    /\ \E rng \in RngStates :
        \E fail \in 0..ProviderCalls(inputs, outputs, rng) :
        LET r == build(inputs, outputs, network_id, memo, rng, fail)
        IN  /\ ret' = r.ret
            /\ trace' = r.trace

\* builder.build(rng): takes &self, the caller keeps the builder
Builder_build ==
    /\ alive
    /\ UNCHANGED << arity, alive, inputs, outputs, network_id, memo >>
    /\ \E rng \in RngStates :
        \E fail \in 0..ProviderCalls(inputs, outputs, rng) :
        LET r == build(inputs, outputs, network_id, memo, rng, fail)
        IN  /\ ret' = r.ret
            /\ trace' = r.trace

\* the builder TransactionAuthorizationBuilder::new() returns
InitBuilder ==
    /\ alive = TRUE
    /\ inputs = << >>
    /\ outputs = << >>
    /\ network_id = NETWORK_ID
    /\ memo = << >>
    /\ ret = Ok
    /\ trace = NoTrace

\* the program as it is built: with Testnet1Parameters
Init ==
    /\ NUM_INPUT_RECORDS = Testnet1_NUM_INPUT_RECORDS
    /\ NUM_OUTPUT_RECORDS = Testnet1_NUM_OUTPUT_RECORDS
    /\ InitBuilder

\* the program built with scheme parameters of any arities
InitAnyArity ==
    /\ NUM_INPUT_RECORDS \in 1..MaxArity
    /\ NUM_OUTPUT_RECORDS \in 1..MaxArity
    /\ InitBuilder

Next ==
    \/ Builder_new
    \/ Builder_add_input
    \/ Builder_add_output
    \/ Builder_network_id
    \/ Builder_memo
    \/ Builder_build

Spec == Init /\ [][Next]_vars

SpecAnyArity == InitAnyArity /\ [][Next]_vars

(***************************************************************************)
(* The properties.                                                         *)
(***************************************************************************)
\* The last call was build.  A failed add_input or add_output leaves the
\* caller no builder; new and the successful mutators return no error and
\* run no construction.
BuildReturned == alive /\ (ret.kind = "Err" \/ trace.entered)

\* the number of entries of a sequence of records flagged dummy
DummyCount(records) ==
    Cardinality({i \in 1..Len(records) : records[i].is_dummy})

\* C1: build accepts the input list only when its length is 1 or
\* NUM_INPUT_RECORDS; with any other number n of inputs (0, or more than
\* NUM_INPUT_RECORDS) build returns InvalidNumberOfInputs(n,
\* NUM_INPUT_RECORDS), enters no construction and returns no authorization.
C1_BuildInputCount ==
    BuildReturned =>
        /\ Len(inputs) \notin {1, NUM_INPUT_RECORDS} =>
             /\ ret = InvalidNumberOfInputs(Len(inputs), NUM_INPUT_RECORDS)
             /\ trace = NoTrace
        /\ ret.kind = "Ok" => Len(inputs) \in {1, NUM_INPUT_RECORDS}

\* C1 happens: build has rejected a builder holding more than
\* NUM_INPUT_RECORDS inputs
C1_Witness ==
    /\ BuildReturned
    /\ Len(inputs) > NUM_INPUT_RECORDS
    /\ ret = InvalidNumberOfInputs(Len(inputs), NUM_INPUT_RECORDS)

\* C2: build on a builder with a valid number of inputs and more than
\* NUM_OUTPUT_RECORDS outputs returns InvalidNumberOfOutputs(number of
\* outputs, NUM_OUTPUT_RECORDS), not the input-count error.
C2_BuildOutputCountKind ==
    (/\ BuildReturned
     /\ Len(inputs) \in {1, NUM_INPUT_RECORDS}
     /\ Len(outputs) > NUM_OUTPUT_RECORDS)
    => ret = InvalidNumberOfOutputs(Len(outputs), NUM_OUTPUT_RECORDS)

\* the "missing outputs" error of build
MissingOutputs == Message("Transaction authorization is missing outputs")

\* C3 as stated: build on a builder with zero outputs returns the "missing
\* outputs" message whatever the number of inputs.
C3_MissingOutputsAnyInputs ==
    (BuildReturned /\ Len(outputs) = 0) => ret = MissingOutputs

\* C3 as amended: build on a builder with zero outputs returns the "missing
\* outputs" message when the number of inputs is 1 or NUM_INPUT_RECORDS;
\* with any other number n of inputs the input check comes first and build
\* returns InvalidNumberOfInputs(n, NUM_INPUT_RECORDS).
C3_MissingOutputs ==
    (BuildReturned /\ Len(outputs) = 0) =>
        IF Len(inputs) \in {1, NUM_INPUT_RECORDS}
        THEN ret = MissingOutputs
        ELSE ret = InvalidNumberOfInputs(Len(inputs), NUM_INPUT_RECORDS)

\* C3 happens: build has returned the "missing outputs" message
C3_Witness ==
    /\ BuildReturned
    /\ Len(outputs) = 0
    /\ Len(inputs) \in {1, NUM_INPUT_RECORDS}
    /\ ret = MissingOutputs

\* C4: the builder never holds more than NUM_INPUT_RECORDS inputs nor more
\* than NUM_OUTPUT_RECORDS outputs.
C4_ListsBounded ==
    /\ Len(inputs) <= NUM_INPUT_RECORDS
    /\ Len(outputs) <= NUM_OUTPUT_RECORDS

InputsOwned ==
    \A i \in 1..Len(inputs) :
        AddressFromPrivateKey(inputs[i].private_key) = inputs[i].record.owner

\* build was called on a builder that passes its count checks
ValidCounts ==
    /\ Len(inputs) \in {1, NUM_INPUT_RECORDS}
    /\ Len(outputs) \in {1, NUM_INPUT_RECORDS}

\* C6 as stated: build on a builder with 1 or NUM_INPUT_RECORDS inputs and
\* 1 or NUM_INPUT_RECORDS outputs returns an authorization, neither an error
\* nor a panic, when no scheme provider operation fails.
C6_ValidCountsBuild ==
    (BuildReturned /\ ValidCounts /\ ~trace.failed) => ret.kind = "Ok"

\* C6 as amended: build on a builder with 1 or NUM_INPUT_RECORDS inputs and
\* 1 or NUM_INPUT_RECORDS outputs, every input pairing a record with the
\* private key of the record's owner, returns an authorization when no
\* scheme provider operation fails.
C6_OwnedValidCountsBuild ==
    (BuildReturned /\ ValidCounts /\ InputsOwned /\ ~trace.failed)
    => ret.kind = "Ok"

\* C6 happens: build has returned an authorization for two inputs owned by
\* two different keys and one output
C6_Witness ==
    /\ BuildReturned
    /\ ret.kind = "Ok"
    /\ Len(inputs) = 2
    /\ inputs[1].private_key # inputs[2].private_key
    /\ Len(outputs) = 1

\* C7: authorize is handed exactly NUM_INPUT_RECORDS keys, NUM_INPUT_RECORDS
\* input records and NUM_OUTPUT_RECORDS output records: the n inputs and m
\* outputs of the builder, followed by exactly NUM_INPUT_RECORDS - n dummy
\* input records and NUM_OUTPUT_RECORDS - m dummy output records.
C7_PaddedToArity ==
    trace.authorized # << >> =>
        LET a == trace.authorized[1]
            n == Len(inputs)
            m == Len(outputs)
        IN  /\ Len(a.private_keys) = NUM_INPUT_RECORDS
            /\ Len(a.input_records) = NUM_INPUT_RECORDS
            /\ Len(a.output_records) = NUM_OUTPUT_RECORDS
            /\ \A i \in 1..n : a.input_records[i] = inputs[i].record
            /\ \A i \in (n + 1)..NUM_INPUT_RECORDS : a.input_records[i].is_dummy
            /\ DummyCount(a.input_records) = NUM_INPUT_RECORDS - n
            /\ \A j \in 1..m : ~a.output_records[j].is_dummy
            /\ \A j \in (m + 1)..NUM_OUTPUT_RECORDS : a.output_records[j].is_dummy
            /\ DummyCount(a.output_records) = NUM_OUTPUT_RECORDS - m

\* C7 happens: authorize has been called for one input and one output, one
\* dummy of each appended
C7_Witness ==
    /\ trace.authorized # << >>
    /\ Len(inputs) = 1
    /\ Len(outputs) = 1
    /\ DummyCount(trace.authorized[1].input_records) = 1
    /\ DummyCount(trace.authorized[1].output_records) = 1

\* C8: in the normalized output lists, and in the output records made from
\* them, output j of the builder keeps its recipient and its amount and is
\* not flagged dummy, and every padding output has the first recipient's
\* address, amount zero and the dummy flag.
C8_NormalizedOutputs ==
    trace.new_record_owners # << >> =>
        LET m == Len(outputs)
            given(j) == IF j <= m THEN outputs[j].recipient
                        ELSE outputs[1].recipient
            value(j) == IF j <= m THEN outputs[j].amount ELSE 0
        IN  /\ Len(trace.new_record_owners) = NUM_OUTPUT_RECORDS
            /\ \A j \in 1..NUM_OUTPUT_RECORDS :
                 /\ trace.new_record_owners[j] = given(j)
                 /\ trace.new_values[j] = value(j)
                 /\ trace.new_is_dummy_flags[j] = (j > m)
            /\ \A j \in 1..Len(trace.output_records) :
                 /\ trace.output_records[j].owner = given(j)
                 /\ trace.output_records[j].value = value(j)
                 /\ trace.output_records[j].is_dummy = (j > m)

\* C8 happens: output records were made from one output of the builder and
\* one padding output
C8_Witness ==
    /\ Len(outputs) = 1
    /\ Len(trace.output_records) = NUM_OUTPUT_RECORDS
    /\ trace.new_is_dummy_flags = << FALSE, TRUE >>
    /\ trace.output_records[1].value > 0

\* C9: every dummy input record made by the padding has value zero, is
\* flagged dummy, is owned by the address of the first spender's key and is
\* paired with a copy of that key, so the key paired with it derives its
\* owner.
C9_DummyInputs ==
    trace.input_records # << >> =>
        /\ Len(trace.private_keys) = Len(trace.input_records)
        /\ \A i \in (Len(inputs) + 1)..Len(trace.input_records) :
             /\ trace.input_records[i].value = 0
             /\ trace.input_records[i].is_dummy
             /\ trace.input_records[i].owner =
                  AddressFromPrivateKey(inputs[1].private_key)
             /\ trace.private_keys[i] = inputs[1].private_key
             /\ AddressFromPrivateKey(trace.private_keys[i]) =
                  trace.input_records[i].owner

\* C9 happens: the padding has made a dummy input record for a builder
\* whose one input is held by the second key
C9_Witness ==
    /\ Len(inputs) = 1
    /\ inputs[1].private_key = 2
    /\ Len(trace.input_records) = NUM_INPUT_RECORDS
    /\ trace.input_records[NUM_INPUT_RECORDS].is_dummy

\* C10: joint_serial_numbers is the bytes, low byte first, of the serial
\* number of padded input record 1 under key 1, then of record 2 under
\* key 2, ... up to NUM_INPUT_RECORDS, and every output record is made with
\* that byte sequence.
C10_JointSerialNumbers ==
    trace.joint_serial_numbers # << >> =>
        LET joint == trace.joint_serial_numbers
            sn(i) == ToSerialNumber(trace.input_records[i],
                                    trace.private_keys[i])
        IN  /\ Len(joint) = 2 * NUM_INPUT_RECORDS
            /\ \A i \in 1..NUM_INPUT_RECORDS :
                 /\ joint[(2 * i) - 1] = sn(i) % 256
                 /\ joint[2 * i] = sn(i) \div 256
            /\ \A j \in 1..Len(trace.output_records) :
                 trace.output_records[j].joint_serial_numbers = joint
            /\ \A k \in 1..Len(trace.authorized) :
                 \A j \in 1..NUM_OUTPUT_RECORDS :
                    trace.authorized[k].output_records[j].joint_serial_numbers
                      = joint

\* C10 happens: the output records were made for two inputs held by two
\* different keys, whose serial numbers differ
C10_Witness ==
    /\ Len(trace.output_records) = NUM_OUTPUT_RECORDS
    /\ Len(inputs) = 2
    /\ inputs[1].private_key # inputs[2].private_key
    /\ SubSeq(trace.joint_serial_numbers, 1, 2)
         # SubSeq(trace.joint_serial_numbers, 3, 4)

LaterCalls ==
    {c \in 1..Len(trace.calls) :
        trace.calls[c].fn \in {"to_serial_number", "to_bytes_le",
                               "Record::new_full", "authorize"}}

\* the address derivations of the ownership check: those made once load and
\* the three calls of every padding turn are done
OwnershipCheckCalls ==
    {c \in 1..Len(trace.calls) :
        /\ c > 1 + (3 * (NUM_INPUT_RECORDS - Len(inputs)))
        /\ trace.calls[c].fn = "from_private_key"}

\* C14: in every run of the construction routine the ownership check comes
\* after the calls of the input padding and before every serial number
\* derivation, output record construction and authorize call, which are
\* made only once all NUM_INPUT_RECORDS pairs are checked; when an input of
\* the builder pairs a record with a key that does not derive its owner,
\* build returns no authorization, authorize is not called, no serial
\* number and no output record is made, and unless a provider call failed
\* earlier the routine stops on the assert_eq! of the check, with the
\* inputs padded.
C14_OwnershipCheckedFirst ==
    trace.entered =>
        /\ \A c \in OwnershipCheckCalls :
              /\ \A d \in 1..Len(trace.calls) :
                    trace.calls[d].fn \in {"hash", "Record::new"} => d < c
              /\ \A d \in LaterCalls : c < d
        /\ LaterCalls # {} =>
              Cardinality(OwnershipCheckCalls) = NUM_INPUT_RECORDS
        /\ ~InputsOwned =>
              /\ ret.kind # "Ok"
              /\ trace.authorized = << >>
              /\ LaterCalls = {}
              /\ trace.joint_serial_numbers = << >>
              /\ trace.output_records = << >>
              /\ ~trace.failed =>
                    /\ ret = Panic("assert address == record.owner()")
                    /\ Len(trace.input_records) = NUM_INPUT_RECORDS
                    /\ OwnershipCheckCalls # {}

\* C14 happens: build padded one input whose record the key does not own,
\* and the check stopped the routine
C14_Witness ==
    /\ trace.entered
    /\ ~trace.failed
    /\ Len(inputs) = 1
    /\ ~InputsOwned
    /\ DummyCount(trace.input_records) = 1
    /\ ret.kind = "Panic"

\* C15: when build is called on a builder whose input count or output count
\* is not 1 or 2, it returns a validation error and the construction
\* routine is not entered; and whenever build returns a validation error,
\* no scheme provider operation was called, no randomness was drawn, and no
\* record, dummy or other, was made.
C15_RejectedBeforeConstruction ==
    BuildReturned =>
        /\ (Len(inputs) \notin {1, 2} \/ Len(outputs) \notin {1, 2}) =>
              /\ ret.kind = "Err"
              /\ ret.tag \in {"InvalidNumberOfInputs", "InvalidNumberOfOutputs",
                              "Message"}
        /\ (/\ ret.kind = "Err"
            /\ ret.tag \in {"InvalidNumberOfInputs", "InvalidNumberOfOutputs",
                            "Message"}) =>
              /\ ~trace.entered
              /\ trace.calls = << >>
              /\ trace.draws = 0
              /\ trace.input_records = << >>
              /\ trace.output_records = << >>
              /\ trace.authorized = << >>

\* C15 happens: build rejected a builder with one input and three outputs
C15_Witness ==
    /\ BuildReturned
    /\ Len(inputs) = 1
    /\ Len(outputs) = 3
    /\ ret.kind = "Err"
    /\ trace = NoTrace

FailedCall == trace.calls[Len(trace.calls)]

\* C17: when a scheme provider operation called by the construction routine
\* after load fails (an address derivation, a nonce hash, a dummy record
\* construction, a serial number derivation or its byte encoding, an output
\* record construction, or authorize), build returns that operation's error
\* and no authorization, the failed call is the last call made, and nothing
\* a later step makes exists: no padded input list when the padding
\* failed, no joint serial numbers when a call before their completion
\* failed, no output records when a call before their completion failed,
\* and no authorize call unless authorize is the call that failed.
C17_ProviderErrorPropagates ==
    (trace.failed /\ FailedCall.fn # "load") =>
        /\ ret = SchemeError(FailedCall)
        /\ ret.kind # "Ok"
        /\ FailedCall.fn \in {"hash", "Record::new"} =>
              /\ trace.input_records = << >>
              /\ OwnershipCheckCalls = {}
        /\ FailedCall.fn \in {"hash", "Record::new", "from_private_key"} =>
              /\ LaterCalls = {}
              /\ trace.joint_serial_numbers = << >>
        /\ FailedCall.fn \in {"to_serial_number", "to_bytes_le"} =>
              /\ LaterCalls \subseteq
                   {c \in 1..Len(trace.calls) :
                       /\ trace.calls[c].fn \in {"to_serial_number", "to_bytes_le"}
                       /\ trace.calls[c].slot <= FailedCall.slot}
              /\ trace.joint_serial_numbers = << >>
        /\ FailedCall.fn # "authorize" =>
              /\ trace.output_records = << >>
              /\ trace.authorized = << >>
              /\ \A c \in 1..Len(trace.calls) : trace.calls[c].fn # "authorize"
        /\ FailedCall.fn = "Record::new_full" =>
              \A c \in 1..Len(trace.calls) :
                 trace.calls[c].fn = "Record::new_full" =>
                    trace.calls[c].slot <= FailedCall.slot

\* C17 happens: the construction of the second output record failed after
\* the joint serial numbers were made, and build returned its error
C17_Witness ==
    /\ trace.failed
    /\ FailedCall = Call("Record::new_full", 2, 1)
    /\ trace.joint_serial_numbers # << >>
    /\ ret.kind = "Err"
    /\ ret.tag = "Scheme"

\* C18: when build's count checks pass and the construction routine is
\* entered, none of its shape assertions fails: the only panics are a failed
\* load and a failed ownership check; the spender and record lists handed
\* over are non-empty and of equal length, as are the recipient and amount
\* lists; and once made, the padded key and input record lists have exactly
\* NUM_INPUT_RECORDS entries and the owner, dummy flag and value lists
\* exactly NUM_OUTPUT_RECORDS.
C18_ShapeAssertionsHold ==
    trace.entered =>
        /\ ret.kind = "Panic" =>
              ret.what \in {"DPCScheme::load(false).unwrap()",
                            "assert address == record.owner()"}
        /\ Len(inputs) >= 1
        /\ Len(outputs) >= 1
        /\ trace.input_records # << >> =>
              /\ Len(trace.input_records) = NUM_INPUT_RECORDS
              /\ Len(trace.private_keys) = NUM_INPUT_RECORDS
        /\ trace.new_record_owners # << >> =>
              /\ Len(trace.new_record_owners) = NUM_OUTPUT_RECORDS
              /\ Len(trace.new_is_dummy_flags) = NUM_OUTPUT_RECORDS
              /\ Len(trace.new_values) = NUM_OUTPUT_RECORDS
        /\ (~trace.failed /\ InputsOwned) =>
              /\ trace.input_records # << >>
              /\ trace.new_record_owners # << >>

\* C18 happens: the routine ran to its end on a builder with two inputs and
\* two outputs, where no list needs padding
C18_Witness ==
    /\ trace.entered
    /\ ret.kind = "Ok"
    /\ Len(inputs) = 2
    /\ Len(outputs) = 2
    /\ Len(trace.new_values) = NUM_OUTPUT_RECORDS
    /\ DummyCount(trace.input_records) = 0

\* C19: an add_input that succeeds appends its (key, record) entry at the
\* end of the input list and leaves the entries already there, the output
\* list, the network id and the memo as they were, and likewise add_output
\* for the output list; and the lists handed to the provider's authorize
\* hold the builder's entries in the order of the builder's lists, key i
\* with record i, recipient j with amount j, none flagged dummy, followed
\* only by dummy entries.
C19_AppendsInOrder ==
    /\ [][/\ \A private_key \in PrivateKeys :
               \A record \in RecordsWith(private_key) :
                  (Builder_add_input_of(private_key, record)
                     /\ ret'.kind = "Ok") =>
                      /\ inputs' = Append(inputs,
                                     TransactionInput(private_key, record))
                      /\ SubSeq(inputs', 1, Len(inputs)) = inputs
                      /\ outputs' = outputs
                      /\ network_id' = network_id
                      /\ memo' = memo
          /\ \A recipient \in Recipients, amount \in Amounts :
               (Builder_add_output_of(recipient, amount)
                  /\ ret'.kind = "Ok") =>
                   /\ outputs' = Append(outputs,
                                   TransactionOutput(recipient, amount))
                   /\ SubSeq(outputs', 1, Len(outputs)) = outputs
                   /\ inputs' = inputs
                   /\ network_id' = network_id
                   /\ memo' = memo]_vars
    /\ [](\A k \in 1..Len(trace.authorized) :
            LET a == trace.authorized[k]
            IN  /\ \A i \in 1..Len(inputs) :
                      /\ a.private_keys[i] = inputs[i].private_key
                      /\ a.input_records[i] = inputs[i].record
                      /\ ~a.input_records[i].is_dummy
                /\ \A i \in (Len(inputs) + 1)..Len(a.input_records) :
                      a.input_records[i].is_dummy
                /\ \A j \in 1..Len(outputs) :
                      /\ a.output_records[j].owner = outputs[j].recipient
                      /\ a.output_records[j].value = outputs[j].amount
                      /\ ~a.output_records[j].is_dummy
                /\ \A j \in (Len(outputs) + 1)..Len(a.output_records) :
                      a.output_records[j].is_dummy)

\* C19 happens: authorize was called for a builder to which the second key's
\* input was added before the first key's, and two outputs to different
\* recipients
C19_Witness ==
    /\ Len(trace.authorized) = 1
    /\ Len(inputs) = 2
    /\ inputs[1].private_key = 2
    /\ inputs[2].private_key = 1
    /\ Len(outputs) = 2
    /\ outputs[1].recipient # outputs[2].recipient

\* C20: the outcome of a build does not depend on the builder's network id:
\* the build that has returned, rerun from the same generator state with the
\* same provider failure on a builder that differs only in its network id,
\* makes the same provider calls with the same keys, records and memo, and
\* returns the same result.
C20_NetworkIdIgnored ==
    BuildReturned =>
        LET fail == IF trace.failed THEN Len(trace.calls) ELSE 0
            outcome == [ret |-> ret, trace |-> trace]
            same(rng) ==
                build(inputs, outputs, network_id, memo, rng, fail) = outcome
        IN  /\ \E rng \in RngStates : same(rng)
            /\ \A rng \in RngStates :
                  same(rng) =>
                      \A id \in NetworkIds :
                          build(inputs, outputs, id, memo, rng, fail) = outcome

\* C20 happens: build returned an authorization on a builder whose network
\* id is not the default one
C20_Witness ==
    /\ BuildReturned
    /\ ret.kind = "Ok"
    /\ network_id # NETWORK_ID
    /\ memo = << 1 >>
    /\ Len(inputs) = 2

====
